---- MODULE Spec2Model ----
(***************************************************************************)
(* The conversation store of the AI Prompt Service: the sessions and       *)
(* messages tables (db_models.py, the initial migration), the operations   *)
(* of SessionService (services/session_service.py), the transactional      *)
(* scope every request runs in (database.py, get_db) and the background    *)
(* expiry sweep (main.py, cleanup_old_sessions).                           *)
(*                                                                         *)
(* The database is PostgreSQL at its default isolation level, READ         *)
(* COMMITTED: a statement sees the rows committed when it starts and the   *)
(* writes of its own transaction; an UPDATE or DELETE of a row waits for   *)
(* the transaction that holds the row's lock and then acts on the latest   *)
(* committed version of the row.  The writes of a transaction become       *)
(* visible to the others at its commit, all at once.                       *)
(***************************************************************************)
EXTENDS Integers, Sequences, FiniteSets, TLC

(* ---- bounds of the model ---- *)
(* The messages ever inserted, and the times the clock advances.           *)
MaxMsgs == 2

MaxTicks == 1

(* ---- program constants ---- *)
session_expiry_hours == 24

default_claude_model == "claude-3-sonnet-20240229"

default_gemini_model == "gemini-pro"

None == "None"

Reqs == {"r1", "r2"}

(* The session ids requests address: those uuid4 hands out, in order.      *)
SessionIds == {1, 2}

Providers == {"claude", "gemini"}

VARIABLES
    now,        \* the wall clock datetime.utcnow() reads, in hours
    sessions,   \* the committed rows of table sessions
    messages,   \* the committed rows of table messages
    req,        \* per request slot: the handler's position, arguments and locals
    sweep,      \* the background cleanup task: position, cutoff, rows it deleted
    nextSid,    \* uuid4 stand-in: the next unused session id
    nextMid,    \* uuid4 stand-in: the next unused message id
    deleted     \* history: ids of the sessions whose deletion has committed

vars == <<now, sessions, messages, req, sweep, nextSid, nextMid, deleted>>

(* No PromptRequest built (yet).                                           *)
EmptyRequest ==
    [system_prompt |-> None, human_input |-> None, conversation_history |-> <<>>,
     ai_provider |-> None, model |-> None]

(* A request slot with no request in it, or whose request has ended.       *)
IdleReq ==
    [pc |-> "done", kind |-> "none", sid |-> 0,
     provider |-> None, model |-> None, system_prompt |-> None,
     role |-> None, content |-> None,
     session |-> {}, next_order |-> 0, ts |-> 0,
     pending |-> {}, dirty |-> FALSE,
     ret_messages |-> <<>>, ret_deleted |-> FALSE, outcome |-> "none",
     request |-> EmptyRequest,   \* the PromptRequest handed to the adapter
     gone |-> FALSE]   \* history: the session read had been deleted before

(* The slot of a request that ended in an exception: get_db has rolled     *)
(* its transaction back and re-raised.                                     *)
Raised == [IdleReq EXCEPT !.outcome = "error"]

(* ---- the tables as one request sees them ---- *)

(* select(Session).where(Session.id == session_id) ... .first()            *)
SessionRow(sid) == {s \in sessions : s.id = sid}

(* The requests, other than r, that hold the row lock of session sid: a    *)
(* flushed UPDATE or DELETE of the row that has not committed yet.         *)
HoldsLock(q, sid) == req[q].dirty /\ req[q].sid = sid /\ req[q].kind # "create"

(* Mutant: a DELETE that takes no row lock.                                *)
SweepHoldsLock_None(sid) == FALSE

(* The rows the sweep's DELETE has locked and not yet committed.           *)
SweepHoldsLock(sid) == sweep.pc = "commit" /\ sid \in sweep.del

LockedByOther(r, sid) ==
    \/ \E q \in Reqs \ {r} : HoldsLock(q, sid)
    \/ SweepHoldsLock(sid)

Init ==
    /\ now = 0
    /\ sessions = {}
    /\ messages = {}
    /\ req = [r \in Reqs |-> IdleReq]
    /\ sweep = [pc |-> "sleep", hours |-> 0, cutoff |-> 0, del |-> {}, count |-> 0,
                failed |-> FALSE]
    /\ nextSid = 1
    /\ nextMid = 1
    /\ deleted = {}

(* The clock advances, here by a little more than the expiry threshold at  *)
(* a time; between two reads it may also stand still.                      *)
TickHours == session_expiry_hours + 1

Tick ==
    /\ now < MaxTicks * TickHours
    /\ now' = now + TickHours
    /\ UNCHANGED <<sessions, messages, req, sweep, nextSid, nextMid, deleted>>

(* ---- the requests: each runs one store operation in the scope of     ---- *)
(* ---- get_db, which opens the transaction when the request starts      ---- *)

(* The appends the requests in flight have started and not yet stored: an  *)
(* add_message, or a send_message turn up to its human message (its reply  *)
(* follows within the turn, so a turn counts once and the message ids go   *)
(* up to 2 * MaxMsgs).                                                     *)
AppendsInFlight ==
    Cardinality({q \in Reqs : req[q].pc \in {"add_next_order", "add_flush"}})
    + Cardinality({q \in Reqs : req[q].pc \in {"send_history", "send_call",
                                                "send_add", "send_flush"}
                                 /\ req[q].role # "assistant"})

CreatesInFlight == Cardinality({q \in Reqs : req[q].pc = "create_flush"})

(* The arguments the requests are made with.                               *)
CreateArgs == {<<"claude", None, "p1">>}

UpdateArgs == {<<"m2", None>>, <<None, "p2">>}

MessageArgs == {<<"human", "Hi">>, <<"assistant", "Hello!">>}

(* Creations with and without a model, for either provider.                *)
CreateArgsModels ==
    {<<"claude", None, "p1">>, <<"gemini", None, "p1">>,
     <<"claude", "m1", "p1">>, <<"gemini", "", "p1">>}

(* ---- SessionService.create_session ---- *)

(* Mutant: the provider's default whatever the caller gave.                *)
CreateModel_AlwaysDefault(provider, model) ==
    IF provider = "claude" THEN default_claude_model ELSE default_gemini_model

(* Lines 64-71, the model stored: the caller's, or the provider's default  *)
(* when it is omitted or empty ("if not model").                           *)
CreateModel(provider, model) ==
    IF model = None \/ model = ""
    THEN (IF provider = "claude" THEN default_claude_model ELSE default_gemini_model)
    ELSE model

(* Lines 73-81 with the arguments of the call, up to the first column      *)
(* default of the INSERT: created_at.                                      *)
CreateSession(r, Args) ==
    /\ req[r].pc = "done"
    /\ nextSid + CreatesInFlight <= Cardinality(SessionIds)
    /\ \E a \in Args :
         req' = [req EXCEPT ![r] = [IdleReq EXCEPT !.pc = "create_flush",
                     !.kind = "create", !.provider = a[1],
                     !.model = a[2],
                     !.system_prompt = a[3], !.ts = now]]
    /\ UNCHANGED <<now, sessions, messages, sweep, nextSid, nextMid, deleted>>

(* Mutant: the two column defaults evaluated in the other order.           *)
CreateFlush_Swapped(r) ==
    /\ req[r].pc = "create_flush"
    /\ req' = [req EXCEPT ![r].pc = "commit", ![r].dirty = TRUE,
                          ![r].sid = nextSid, ![r].outcome = "ok",
                          ![r].session = {[id |-> nextSid,
                                           ai_provider |-> req[r].provider,
                                           model |-> CreateModel(req[r].provider,
                                                                 req[r].model),
                                           system_prompt |-> req[r].system_prompt,
                                           created_at |-> now,
                                           updated_at |-> req[r].ts]}]
    /\ nextSid' = nextSid + 1
    /\ UNCHANGED <<now, sessions, messages, sweep, nextMid, deleted>>

(* The rest of the flush: id = uuid4(), updated_at = utcnow(), INSERT.     *)
CreateFlush(r) ==
    /\ req[r].pc = "create_flush"
    /\ req' = [req EXCEPT ![r].pc = "commit", ![r].dirty = TRUE,
                          ![r].sid = nextSid, ![r].outcome = "ok",
                          ![r].session = {[id |-> nextSid,
                                           ai_provider |-> req[r].provider,
                                           model |-> CreateModel(req[r].provider,
                                                                 req[r].model),
                                           system_prompt |-> req[r].system_prompt,
                                           created_at |-> req[r].ts,
                                           updated_at |-> now]}]
    /\ nextSid' = nextSid + 1
    /\ UNCHANGED <<now, sessions, messages, sweep, nextMid, deleted>>

(* ---- SessionService.get_session ---- *)

(* Mutant: the lookup that never finds the row.                            *)
GetSession_Miss(r) ==
    /\ req[r].pc = "done"
    /\ \E sid \in SessionIds :
         req' = [req EXCEPT ![r] = [IdleReq EXCEPT !.pc = "commit",
                     !.kind = "get", !.sid = sid, !.gone = sid \in deleted,
                     !.outcome = "not_found"]]
    /\ UNCHANGED <<now, sessions, messages, sweep, nextSid, nextMid, deleted>>

(* Lines 101-111.                                                          *)
GetSession(r) ==
    /\ req[r].pc = "done"
    /\ \E sid \in SessionIds :
         req' = [req EXCEPT ![r] = [IdleReq EXCEPT !.pc = "commit",
                     !.kind = "get", !.sid = sid, !.gone = sid \in deleted,
                     !.session = SessionRow(sid),
                     !.outcome = IF SessionRow(sid) = {} THEN "not_found" ELSE "ok"]]
    /\ UNCHANGED <<now, sessions, messages, sweep, nextSid, nextMid, deleted>>

(* ---- SessionService.update_session ---- *)

(* Mutant: a patch that also stamps created_at.                            *)
ApplyUpdate_Recreate(row, model, system_prompt, ts) ==
    [row EXCEPT !.system_prompt = IF system_prompt = None THEN @ ELSE system_prompt,
                !.model = IF model = None THEN @ ELSE model,
                !.created_at = ts, !.updated_at = ts]

(* Mutant: the patch applied without the "is not None" tests.              *)
ApplyUpdate_Overwrite(row, model, system_prompt, ts) ==
    [row EXCEPT !.system_prompt = system_prompt, !.model = model, !.updated_at = ts]

(* Lines 134-141 on a session row: the fields of the patch and updated_at. *)
ApplyUpdate(row, model, system_prompt, ts) ==
    [row EXCEPT !.system_prompt = IF system_prompt # None THEN system_prompt ELSE @,
                !.model = IF model # None THEN model ELSE @,
                !.updated_at = ts]

(* Mutant: update_session without the "if not session" return.            *)
UpdateSession_NoCheck(r, Args) ==
    /\ req[r].pc = "done"
    /\ \E sid \in SessionIds, a \in Args :
         req' = [req EXCEPT ![r] =
             [IdleReq EXCEPT !.pc = "update_flush", !.kind = "update", !.sid = sid,
                             !.model = a[1], !.system_prompt = a[2], !.ts = now]]
    /\ UNCHANGED <<now, sessions, messages, sweep, nextSid, nextMid, deleted>>

(* Lines 130-141: load the session, patch the loaded object.               *)
UpdateSession(r, Args) ==
    /\ req[r].pc = "done"
    /\ \E sid \in SessionIds, a \in Args :
        LET found == SessionRow(sid) IN
         req' = [req EXCEPT ![r] =
            IF found = {}
            THEN [IdleReq EXCEPT !.pc = "commit", !.kind = "update", !.sid = sid,
                                 !.model = a[1], !.system_prompt = a[2],
                                 !.outcome = "not_found"]
            ELSE [IdleReq EXCEPT !.pc = "update_flush", !.kind = "update", !.sid = sid,
                                 !.model = a[1], !.system_prompt = a[2], !.ts = now,
                                 !.session = {ApplyUpdate(s, a[1], a[2], now) : s \in found}]]
    /\ UNCHANGED <<now, sessions, messages, sweep, nextSid, nextMid, deleted>>

(* Line 142, the UPDATE of the row: it waits for the row's lock; a row     *)
(* that is gone by then makes the flush raise (0 rows matched).            *)
UpdateFlush(r) ==
    /\ req[r].pc = "update_flush"
    /\ ~LockedByOther(r, req[r].sid)
    /\ req' = [req EXCEPT ![r] =
            IF SessionRow(req[r].sid) = {}
            THEN Raised
            ELSE [@ EXCEPT !.pc = "commit", !.outcome = "ok", !.dirty = TRUE]]
    /\ UNCHANGED <<now, sessions, messages, sweep, nextSid, nextMid, deleted>>

(* ---- SessionService.add_message ---- *)

(* The rows of table messages a statement of request r sees: the committed *)
(* ones and those r inserted itself.                                       *)
VisibleMessages(r) == messages \cup req[r].pending

SessionMessages(M, sid) == {m \in M : m.session_id = sid}

(* Mutant: the maximum without the + 1.                                    *)
NextOrder_NoIncrement(M) ==
    IF M = {} THEN 0
    ELSE CHOOSE o \in {m.order : m \in M} : \A m \in M : m.order <= o

(* select(func.coalesce(func.max(Message.order), -1) + 1)                  *)
NextOrder(M) ==
    (IF M = {} THEN -1
     ELSE CHOOSE o \in {m.order : m \in M} : \A m \in M : m.order <= o) + 1

(* Mutant: add_message without the "if not session" return.               *)
AddMessage_NoCheck(r, Args) ==
    /\ req[r].pc = "done"
    /\ nextMid + AppendsInFlight <= MaxMsgs
    /\ \E sid \in SessionIds, a \in Args :
         req' = [req EXCEPT ![r] =
            [IdleReq EXCEPT !.pc = "add_next_order", !.kind = "append", !.sid = sid,
                            !.role = a[1], !.content = a[2]]]
    /\ UNCHANGED <<now, sessions, messages, sweep, nextSid, nextMid, deleted>>

(* Lines 166-168: the session must exist, else None.                       *)
AddMessage(r, Args) ==
    /\ req[r].pc = "done"
    /\ nextMid + AppendsInFlight <= MaxMsgs
    /\ \E sid \in SessionIds, a \in Args :
         req' = [req EXCEPT ![r] =
            [IdleReq EXCEPT !.pc = IF SessionRow(sid) = {} THEN "commit"
                                   ELSE "add_next_order",
                            !.outcome = IF SessionRow(sid) = {} THEN "not_found"
                                        ELSE "none",
                            !.kind = "append", !.sid = sid,
                            !.role = a[1], !.content = a[2]]]
    /\ UNCHANGED <<now, sessions, messages, sweep, nextSid, nextMid, deleted>>

(* Lines 170-188: read the next order, build the message, stamp the        *)
(* loaded session.                                                         *)
AddNextOrder(r) ==
    /\ req[r].pc = "add_next_order"
    /\ req' = [req EXCEPT ![r].pc = "add_flush", ![r].ts = now,
            ![r].next_order = NextOrder(SessionMessages(VisibleMessages(r), req[r].sid))]
    /\ UNCHANGED <<now, sessions, messages, sweep, nextSid, nextMid, deleted>>

(* Mutant: a flush that inserts the message without the foreign key of     *)
(* messages.session_id and without noticing that the UPDATE matched no row.*)
AddFlush_NoForeignKey(r) ==
    /\ req[r].pc = "add_flush"
    /\ ~LockedByOther(r, req[r].sid)
    /\ req' = [req EXCEPT ![r] = [@ EXCEPT !.pc = "commit", !.outcome = "ok",
                 !.dirty = TRUE,
                 !.pending = @ \cup {[id |-> nextMid,
                                      session_id |-> req[r].sid,
                                      role |-> req[r].role,
                                      content |-> req[r].content,
                                      order |-> req[r].next_order,
                                      created_at |-> now]}]]
    /\ nextMid' = nextMid + 1
    /\ UNCHANGED <<now, sessions, messages, sweep, nextSid, deleted>>

(* Line 189: UPDATE sessions SET updated_at, then INSERT INTO messages.    *)
(* The UPDATE waits for the row's lock; with the row gone the flush raises *)
(* (0 rows matched; the foreign key of messages.session_id).               *)
AddFlush(r) ==
    /\ req[r].pc = "add_flush"
    /\ ~LockedByOther(r, req[r].sid)
    /\ IF SessionRow(req[r].sid) = {}
       THEN /\ req' = [req EXCEPT ![r] = Raised]
            /\ UNCHANGED nextMid
       ELSE /\ req' = [req EXCEPT ![r] = [@ EXCEPT !.pc = "commit", !.outcome = "ok",
                         !.dirty = TRUE,
                         !.pending = @ \cup {[id |-> nextMid,
                                              session_id |-> req[r].sid,
                                              role |-> req[r].role,
                                              content |-> req[r].content,
                                              order |-> req[r].next_order,
                                              created_at |-> now]}]]
            /\ nextMid' = nextMid + 1
    /\ UNCHANGED <<now, sessions, messages, sweep, nextSid, deleted>>

(* ---- SessionService.delete_session ---- *)

(* Mutant: delete_session that reports True whatever the DELETE returned.  *)
DeleteSession_AlwaysTrue(r) ==
    /\ req[r].pc = "done"
    /\ \E sid \in SessionIds :
        /\ ~LockedByOther(r, sid)
        /\ req' = [req EXCEPT ![r] =
            [IdleReq EXCEPT !.pc = "commit", !.kind = "delete", !.sid = sid,
                            !.outcome = "ok", !.dirty = SessionRow(sid) # {},
                            !.ret_deleted = TRUE]]
    /\ UNCHANGED <<now, sessions, messages, sweep, nextSid, nextMid, deleted>>

(* Lines 209-221: DELETE ... RETURNING id; it waits for the row's lock.    *)
DeleteSession(r) ==
    /\ req[r].pc = "done"
    /\ \E sid \in SessionIds :
        /\ ~LockedByOther(r, sid)
        /\ req' = [req EXCEPT ![r] =
            IF SessionRow(sid) = {}
            THEN [IdleReq EXCEPT !.pc = "commit", !.kind = "delete", !.sid = sid,
                                 !.outcome = "not_found", !.ret_deleted = FALSE]
            ELSE [IdleReq EXCEPT !.pc = "commit", !.kind = "delete", !.sid = sid,
                                 !.outcome = "ok", !.dirty = TRUE,
                                 !.ret_deleted = TRUE]]
    /\ UNCHANGED <<now, sessions, messages, sweep, nextSid, nextMid, deleted>>

(* ---- SessionService.get_messages_for_session ---- *)

(* Mutant: the query without its ORDER BY.                                 *)
OrderedBy_Unsorted(M) ==
    {q \in [1..Cardinality(M) -> M] :
        \A i, j \in 1..Cardinality(M) : i # j => q[i] # q[j]}

(* The orderings ORDER BY messages."order" may return the rows of M in:    *)
(* ascending by order, rows of equal order in either order.                *)
OrderedBy(M) ==
    {q \in [1..Cardinality(M) -> M] :
        /\ \A i, j \in 1..Cardinality(M) : i # j => q[i] # q[j]
        /\ \A i, j \in 1..Cardinality(M) : i < j => q[i].order <= q[j].order}

(* Mutant: a listing that raises for a session id with no row.             *)
GetMessagesForSession_NeedsSession(r) ==
    /\ req[r].pc = "done"
    /\ \E sid \in SessionIds :
       \E q \in OrderedBy(SessionMessages(messages, sid)) :
         req' = [req EXCEPT ![r] =
                   IF SessionRow(sid) = {} THEN Raised
                   ELSE [IdleReq EXCEPT !.pc = "commit", !.kind = "list",
                           !.sid = sid, !.gone = sid \in deleted,
                           !.ret_messages = q, !.outcome = "ok"]]
    /\ UNCHANGED <<now, sessions, messages, sweep, nextSid, nextMid, deleted>>

(* Lines 268-273: the messages of the session, ordered, as a list.         *)
GetMessagesForSession(r) ==
    /\ req[r].pc = "done"
    /\ \E sid \in SessionIds :
       \E q \in OrderedBy(SessionMessages(messages, sid)) :
         req' = [req EXCEPT ![r] = [IdleReq EXCEPT !.pc = "commit", !.kind = "list",
                     !.sid = sid, !.gone = sid \in deleted,
                     !.ret_messages = q, !.outcome = "ok"]]
    /\ UNCHANGED <<now, sessions, messages, sweep, nextSid, nextMid, deleted>>

(* ---- main.py, send_message: one request, one AsyncSession ---- *)

(* The human inputs of the requests, and the text the provider answers.    *)
SendArgs == {"Hi"}

ProviderResponse == "Hello!"

(* Whether the AsyncSession of request r holds a transaction open: it      *)
(* begins one at the first statement it executes and keeps it until the    *)
(* commit or rollback of get_db; no handler commits before.                *)
InTransaction(r) == req[r].pc \notin {"done", "create_flush", "prompt_call"}

(* Mutant: send_message without the "if not session" test: the provider   *)
(* is called for a session that does not exist.                            *)
SendMessage_NoCheck(r, Args) ==
    /\ req[r].pc = "done"
    /\ nextMid + AppendsInFlight <= MaxMsgs
    /\ \E sid \in SessionIds, c \in Args :
         req' = [req EXCEPT ![r] =
            IF SessionRow(sid) = {}
            THEN [IdleReq EXCEPT !.pc = "send_call", !.kind = "send", !.sid = sid,
                                 !.role = "human", !.content = c]
            ELSE [IdleReq EXCEPT !.pc = "send_history", !.kind = "send", !.sid = sid,
                                 !.role = "human", !.content = c,
                                 !.session = SessionRow(sid)]]
    /\ UNCHANGED <<now, sessions, messages, sweep, nextSid, nextMid, deleted>>

(* Lines 458-460: get_session, 404 when there is no such session.          *)
SendMessage(r, Args) ==
    /\ req[r].pc = "done"
    /\ nextMid + AppendsInFlight <= MaxMsgs
    /\ \E sid \in SessionIds, c \in Args :
         req' = [req EXCEPT ![r] =
            IF SessionRow(sid) = {}
            THEN [IdleReq EXCEPT !.pc = "raise", !.kind = "send", !.sid = sid,
                                 !.outcome = "not_found"]
            ELSE [IdleReq EXCEPT !.pc = "send_history", !.kind = "send", !.sid = sid,
                                 !.role = "human", !.content = c,
                                 !.session = SessionRow(sid)]]
    /\ UNCHANGED <<now, sessions, messages, sweep, nextSid, nextMid, deleted>>

(* Lines 466-469: the stored messages as role/content pairs, in the order  *)
(* they were read.                                                         *)
ConversationHistory(db_messages) ==
    [i \in 1..Len(db_messages) |->
        [role |-> db_messages[i].role, content |-> db_messages[i].content]]

(* Mutant: a request built with the adapter's defaults, not the session's. *)
PromptRequest_Defaults(session, human_input, db_messages) ==
    [system_prompt |-> "p1", human_input |-> human_input,
     conversation_history |-> ConversationHistory(db_messages),
     ai_provider |-> session.ai_provider, model |-> None]

(* Lines 472-479: the request for the adapter, from the session loaded at  *)
(* line 458, the new input and the history.                                *)
PromptRequest(session, human_input, db_messages) ==
    [system_prompt |-> session.system_prompt, human_input |-> human_input,
     conversation_history |-> ConversationHistory(db_messages),
     ai_provider |-> session.ai_provider, model |-> session.model]

(* claude_service.py lines 58-74: the messages of the API call: the        *)
(* history entries whose role is 'user' or 'assistant' (others are skipped *)
(* with a warning), then the new input as 'user'. The roles of the model   *)
(* are lower case already.                                                 *)
ClaudeMessages(request) ==
    SelectSeq(request.conversation_history,
              LAMBDA m : m.role \in {"user", "assistant"})
    \o <<[role |-> "user", content |-> request.human_input]>>

(* gemini_service.py lines 63-67 and 113: every history entry is sent,     *)
(* prefixed "Human: " when its role is 'human' and "Assistant: " otherwise,*)
(* then the new input prefixed "Human: ".                                  *)
GeminiMessages(request) ==
    [i \in 1..Len(request.conversation_history) |->
        [role |-> IF request.conversation_history[i].role = "human"
                  THEN "Human: " ELSE "Assistant: ",
         content |-> request.conversation_history[i].content]]
    \o <<[role |-> "Human: ", content |-> request.human_input]>>

(* main.py lines 137-145 and 482-485: the adapter of the request's         *)
(* provider, and the conversation it sends.                                *)
ProviderMessages(request) ==
    IF request.ai_provider = "claude" THEN ClaudeMessages(request)
    ELSE GeminiMessages(request)

(* claude_service.py line 50, gemini_service.py line 49: the model of the  *)
(* call, "request.model or" the adapter's default.                         *)
ProviderModel(request) ==
    IF request.model = None \/ request.model = ""
    THEN (IF request.ai_provider = "claude" THEN default_claude_model
          ELSE default_gemini_model)
    ELSE request.model

(* Lines 463-485: the history, read in the same transaction, and the       *)
(* request built from it and handed to the adapter.                        *)
SendHistory(r) ==
    /\ req[r].pc = "send_history"
    /\ \E q \in OrderedBy(SessionMessages(VisibleMessages(r), req[r].sid)) :
         req' = [req EXCEPT ![r].pc = "send_call", ![r].ret_messages = q,
                            ![r].request =
                                PromptRequest(CHOOSE s \in req[r].session : TRUE,
                                              req[r].content, q)]
    /\ UNCHANGED <<now, sessions, messages, sweep, nextSid, nextMid, deleted>>

(* Lines 482-485: the call of the provider adapter returns its response    *)
(* (its failure is a Rollback of the request).                             *)
GenerateResponse(r) ==
    /\ req[r].pc = "send_call"
    /\ req' = [req EXCEPT ![r].pc = "send_add"]
    /\ UNCHANGED <<now, sessions, messages, sweep, nextSid, nextMid, deleted>>

(* Lines 488-489, each add_message up to its flush: a session that is gone *)
(* makes add_message return None, which send_message does not look at.     *)
SendAddMessage(r) ==
    /\ req[r].pc = "send_add"
    /\ req' = [req EXCEPT ![r] =
          IF SessionRow(req[r].sid) = {}
          THEN (IF req[r].role = "human"
                THEN [@ EXCEPT !.role = "assistant", !.content = ProviderResponse]
                ELSE [@ EXCEPT !.pc = "commit", !.outcome = "ok"])
          ELSE [@ EXCEPT !.pc = "send_flush", !.ts = now,
                   !.next_order =
                       NextOrder(SessionMessages(VisibleMessages(r), req[r].sid))]]
    /\ UNCHANGED <<now, sessions, messages, sweep, nextSid, nextMid, deleted>>

(* Mutant: add_message committing on its own, message by message.          *)
SendFlush_Autocommit(r) ==
    /\ req[r].pc = "send_flush"
    /\ nextMid <= 2 * MaxMsgs
    /\ ~LockedByOther(r, req[r].sid)
    /\ IF SessionRow(req[r].sid) = {}
       THEN /\ req' = [req EXCEPT ![r] = Raised]
            /\ UNCHANGED <<nextMid, messages>>
       ELSE /\ req' = [req EXCEPT ![r] =
                  [@ EXCEPT !.pc = IF req[r].role = "human" THEN "send_add"
                                   ELSE "commit",
                            !.outcome = IF req[r].role = "human" THEN "none" ELSE "ok",
                            !.role = "assistant", !.content = ProviderResponse]]
            /\ messages' = messages \cup {[id |-> nextMid,
                                            session_id |-> req[r].sid,
                                            role |-> req[r].role,
                                            content |-> req[r].content,
                                            order |-> req[r].next_order,
                                            created_at |-> now]}
            /\ nextMid' = nextMid + 1
    /\ UNCHANGED <<now, sessions, sweep, nextSid, deleted>>

(* The flush of each add_message, as AddFlush; after the human message the *)
(* handler goes on to the assistant's, after that it returns.              *)
SendFlush(r) ==
    /\ req[r].pc = "send_flush"
    /\ nextMid <= 2 * MaxMsgs
    /\ ~LockedByOther(r, req[r].sid)
    /\ IF SessionRow(req[r].sid) = {}
       THEN /\ req' = [req EXCEPT ![r] = Raised]
            /\ UNCHANGED nextMid
       ELSE /\ req' = [req EXCEPT ![r] =
                  [@ EXCEPT !.pc = IF req[r].role = "human" THEN "send_add"
                                   ELSE "commit",
                            !.outcome = IF req[r].role = "human" THEN "none" ELSE "ok",
                            !.role = "assistant", !.content = ProviderResponse,
                            !.dirty = TRUE,
                            !.pending = @ \cup {[id |-> nextMid,
                                                 session_id |-> req[r].sid,
                                                 role |-> req[r].role,
                                                 content |-> req[r].content,
                                                 order |-> req[r].next_order,
                                                 created_at |-> now]}]]
            /\ nextMid' = nextMid + 1
    /\ UNCHANGED <<now, sessions, messages, sweep, nextSid, deleted>>

(* ---- get_db: commit on return, rollback on an exception ---- *)

(* Mutant: an append whose commit leaves updated_at as it was.             *)
CommittedSessions_NoTouch(r) ==
    IF ~req[r].dirty THEN sessions
    ELSE IF req[r].kind = "create" THEN sessions \cup req[r].session
    ELSE IF req[r].kind = "delete" THEN sessions \ SessionRow(req[r].sid)
    ELSE sessions

(* Mutant: a DELETE that removes no row.                                   *)
CommittedSessions_DeleteLost(r) ==
    IF req[r].dirty /\ req[r].kind = "create" THEN sessions \cup req[r].session
    ELSE sessions

(* The tables after the writes of request r are committed.                 *)
(* Mutant: an UPDATE that writes every column of the row as the request    *)
(* loaded and patched it, not only the columns it changed.                 *)
CommittedSessions_WholeRow(r) ==
    IF ~req[r].dirty THEN sessions
    ELSE IF req[r].kind = "create" THEN sessions \cup req[r].session
    ELSE IF req[r].kind = "update"
         THEN {s \in sessions : s.id # req[r].sid} \cup req[r].session
    ELSE IF req[r].kind \in {"append", "send"}
         THEN {IF s.id = req[r].sid THEN [s EXCEPT !.updated_at = req[r].ts]
               ELSE s : s \in sessions}
    ELSE IF req[r].kind = "delete" THEN sessions \ SessionRow(req[r].sid)
    ELSE sessions

CommittedSessions(r) ==
    IF ~req[r].dirty THEN sessions
    ELSE IF req[r].kind = "create" THEN sessions \cup req[r].session
    ELSE IF req[r].kind = "update"
         THEN {IF s.id = req[r].sid
               THEN ApplyUpdate(s, req[r].model, req[r].system_prompt, req[r].ts)
               ELSE s : s \in sessions}
    ELSE IF req[r].kind \in {"append", "send"}
         THEN {IF s.id = req[r].sid THEN [s EXCEPT !.updated_at = req[r].ts]
               ELSE s : s \in sessions}
    ELSE IF req[r].kind = "delete" THEN sessions \ SessionRow(req[r].sid)
    ELSE sessions

(* Mutant: a cascade that takes the messages of every session.             *)
CascadeDelete_All(M, sids) == {}

(* Mutant: the foreign key without ondelete="CASCADE".                     *)
CascadeDelete_NoCascade(M, sids) == M

(* ondelete="CASCADE": the messages of a deleted session go with it.       *)
CascadeDelete(M, sids) == {m \in M : m.session_id \notin sids}

(* Mutant: an append that replaces the messages the session already has.   *)
CommittedMessages_Replace(r) ==
    IF ~req[r].dirty THEN messages
    ELSE IF req[r].kind \in {"append", "send"}
         THEN CascadeDelete(messages, {req[r].sid}) \cup req[r].pending
    ELSE IF req[r].kind = "delete" THEN CascadeDelete(messages, {req[r].sid})
    ELSE messages

(* The message table after the commit of request r: its pending inserts    *)
(* added, the messages of a session it deleted gone with it.               *)
CommittedMessages(r) ==
    IF ~req[r].dirty THEN messages
    ELSE IF req[r].kind \in {"append", "send"} THEN messages \cup req[r].pending
    ELSE IF req[r].kind = "delete" THEN CascadeDelete(messages, {req[r].sid})
    ELSE messages

(* database.py line 59 (await session.commit()) after the handler returned. *)
Commit(r) ==
    /\ req[r].pc = "commit"
    /\ sessions' = CommittedSessions(r)
    /\ messages' = CommittedMessages(r)
    /\ deleted' = IF req[r].dirty /\ req[r].kind = "delete"
                  THEN deleted \cup {req[r].sid} ELSE deleted
    /\ req' = [req EXCEPT ![r] = IdleReq]
    /\ UNCHANGED <<now, sweep, nextSid, nextMid>>

(* Mutant: a failure that leaves the writes flushed so far in the tables.  *)
Rollback_KeepsWrites(r) ==
    /\ req[r].pc # "done"
    /\ sessions' = CommittedSessions(r)
    /\ messages' = CommittedMessages(r)
    /\ req' = [req EXCEPT ![r] = Raised]
    /\ UNCHANGED <<now, sweep, nextSid, nextMid, deleted>>

(* database.py lines 60-62: a storage failure (or the request being        *)
(* abandoned) at any await of the request raises into get_db, which rolls  *)
(* the transaction back and re-raises.                                     *)
Rollback(r) ==
    /\ req[r].pc \notin {"done", "prompt_call"}
    /\ req' = [req EXCEPT ![r] = Raised]
    /\ UNCHANGED <<now, sessions, messages, sweep, nextSid, nextMid, deleted>>

(* ---- generate_prompt_response (main.py, POST /api/prompt) ---- *)

PromptArgs == {"Hi"}

(* Lines 205-246: the handler has no db dependency; it picks the adapter   *)
(* and awaits the provider with the request as it came.                    *)
GeneratePromptResponse(r, Args) ==
    /\ req[r].pc = "done"
    /\ \E c \in Args :
        req' = [req EXCEPT ![r] =
            [IdleReq EXCEPT !.pc = "prompt_call", !.kind = "prompt", !.content = c]]
    /\ UNCHANGED <<now, sessions, messages, sweep, nextSid, nextMid, deleted>>

(* Mutant: a prompt endpoint that records the exchange in a session.       *)
PromptResponseReturn_Stores(r) ==
    /\ req[r].pc = "prompt_call"
    /\ \E o \in {"ok", "error"} : req' = [req EXCEPT ![r] = [IdleReq EXCEPT !.outcome = o]]
    /\ messages' = messages \cup {[id |-> nextMid, session_id |-> 1, role |-> "human",
                                   content |-> req[r].content, order |-> 0,
                                   created_at |-> now]}
    /\ nextMid' = nextMid + 1
    /\ UNCHANGED <<now, sessions, sweep, nextSid, deleted>>

(* Lines 246-268: the provider answered (the response is returned) or      *)
(* raised (HTTPException 400 or 500).                                      *)
PromptResponseReturn(r) ==
    /\ req[r].pc = "prompt_call"
    /\ \E o \in {"ok", "error"} : req' = [req EXCEPT ![r] = [IdleReq EXCEPT !.outcome = o]]
    /\ UNCHANGED <<now, sessions, messages, sweep, nextSid, nextMid, deleted>>

(* ---- the background task cleanup_old_sessions (main.py) ---- *)

(* Mutant: the DELETE with updated_at <= cutoff.                           *)
Expired_Inclusive(cutoff) == {s.id : s \in {x \in sessions : x.updated_at <= cutoff}}

(* The rows DELETE ... WHERE updated_at < cutoff removes.                  *)
Expired(cutoff) == {s.id : s \in {x \in sessions : x.updated_at < cutoff}}

(* The values of hours the sweep is called with.                           *)
SweepHours == {0, session_expiry_hours, 10000}

(* Mutant: the cutoff with the sign of the timedelta reversed.             *)
CleanupOldSessionsHours_Future(hours) ==
    /\ sweep.pc = "sleep"
    /\ LET cutoff == now + hours IN
        /\ \A sid \in Expired(cutoff) : \A q \in Reqs : ~HoldsLock(q, sid)
        /\ sweep' = [sweep EXCEPT !.pc = "commit", !.hours = hours, !.cutoff = cutoff,
                                  !.del = Expired(cutoff),
                                  !.count = Cardinality(Expired(cutoff)),
                                  !.failed = FALSE]
    /\ UNCHANGED <<now, sessions, messages, req, nextSid, nextMid, deleted>>

(* SessionService.cleanup_old_sessions(db, hours), lines 238-251: the      *)
(* cutoff and the DELETE, which waits for the lock of every row it hits,   *)
(* and the count of the rows it returned.                                  *)
CleanupOldSessionsHours(hours) ==
    /\ sweep.pc = "sleep"
    /\ LET cutoff == now - hours IN
        /\ \A sid \in Expired(cutoff) : \A q \in Reqs : ~HoldsLock(q, sid)
        /\ sweep' = [sweep EXCEPT !.pc = "commit", !.hours = hours, !.cutoff = cutoff,
                                  !.del = Expired(cutoff),
                                  !.count = Cardinality(Expired(cutoff)),
                                  !.failed = FALSE]
    /\ UNCHANGED <<now, sessions, messages, req, nextSid, nextMid, deleted>>

(* The call of the background task: hours is left to its default.          *)
CleanupOldSessions == CleanupOldSessionsHours(session_expiry_hours)

(* main.py line 155: db.commit(), then close, log and sleep.               *)
SweepCommit ==
    /\ sweep.pc = "commit"
    /\ sessions' = {s \in sessions : s.id \notin sweep.del}
    /\ messages' = CascadeDelete(messages, sweep.del)
    /\ deleted' = deleted \cup sweep.del
    /\ sweep' = [sweep EXCEPT !.pc = "sleep", !.hours = 0, !.cutoff = 0,
                              !.del = {}, !.count = 0]
    /\ UNCHANGED <<now, req, nextSid, nextMid>>

(* Mutant: a failure of the iteration that ends the task.                  *)
SweepFail_Stops ==
    /\ sweep.pc = "commit"
    /\ sweep' = [sweep EXCEPT !.pc = "stopped", !.hours = 0, !.cutoff = 0,
                              !.del = {}, !.count = 0, !.failed = TRUE]
    /\ UNCHANGED <<now, sessions, messages, req, nextSid, nextMid, deleted>>

(* Mutant: a failed iteration whose DELETE stays applied.                  *)
SweepFail_KeepsDelete ==
    /\ sweep.pc = "commit"
    /\ sessions' = {s \in sessions : s.id \notin sweep.del}
    /\ messages' = CascadeDelete(messages, sweep.del)
    /\ deleted' = deleted \cup sweep.del
    /\ sweep' = [sweep EXCEPT !.pc = "sleep", !.hours = 0, !.cutoff = 0,
                              !.del = {}, !.count = 0, !.failed = TRUE]
    /\ UNCHANGED <<now, req, nextSid, nextMid>>

(* main.py lines 156-164: a failure in the iteration is rolled back,       *)
(* logged, and the loop sleeps until the next iteration.                   *)
SweepFail ==
    /\ sweep.pc = "commit"
    /\ sweep' = [sweep EXCEPT !.pc = "sleep", !.hours = 0, !.cutoff = 0,
                              !.del = {}, !.count = 0, !.failed = TRUE]
    /\ UNCHANGED <<now, sessions, messages, req, nextSid, nextMid, deleted>>

(* ---- the session lifecycle: concurrent creates, appends and deletes, ---- *)
(* ---- and the sweep                                                   ---- *)
Next ==
    \/ Tick
    \/ \E r \in Reqs :
        \/ CreateSession(r, CreateArgs) \/ CreateFlush(r)
        \/ AddMessage(r, {<<"human", "Hi">>}) \/ AddNextOrder(r) \/ AddFlush(r)
        \/ DeleteSession(r)
        \/ Commit(r) \/ Rollback(r)
    \/ CleanupOldSessions \/ SweepCommit \/ SweepFail

Spec == Init /\ [][Next]_vars

(* ---- concurrent creates, updates and deletes ---- *)
NextUpdate ==
    \/ Tick
    \/ \E r \in Reqs :
        \/ CreateSession(r, CreateArgs) \/ CreateFlush(r)
        \/ UpdateSession(r, UpdateArgs) \/ UpdateFlush(r)
        \/ DeleteSession(r)
        \/ Commit(r) \/ Rollback(r)

SpecUpdate == Init /\ [][NextUpdate]_vars

(* ---- reads concurrent with creates, appends and deletes ---- *)
NextRead ==
    \E r \in Reqs :
        \/ CreateSession(r, CreateArgs) \/ CreateFlush(r)
        \/ AddMessage(r, {<<"human", "Hi">>}) \/ AddNextOrder(r) \/ AddFlush(r)
        \/ DeleteSession(r)
        \/ GetSession(r)
        \/ GetMessagesForSession(r)
        \/ Commit(r) \/ Rollback(r)

SpecRead == Init /\ [][NextRead]_vars

(* ---- one request at a time: appends made one after another ---- *)
NextSeq ==
    \/ CreateSession("r1", CreateArgs) \/ CreateFlush("r1")
    \/ AddMessage("r1", MessageArgs) \/ AddNextOrder("r1") \/ AddFlush("r1")
    \/ DeleteSession("r1")
    \/ GetMessagesForSession("r1")
    \/ Commit("r1") \/ Rollback("r1")

SpecSeq == Init /\ [][NextSeq]_vars

(* ---- the sweep, called with any of SweepHours, concurrent with creates ---- *)
(* ---- and appends                                                       ---- *)
NextSweep ==
    \/ Tick
    \/ \E r \in Reqs :
        \/ CreateSession(r, CreateArgs) \/ CreateFlush(r)
        \/ AddMessage(r, {<<"human", "Hi">>}) \/ AddNextOrder(r) \/ AddFlush(r)
        \/ Commit(r) \/ Rollback(r)
    \/ \E h \in SweepHours : CleanupOldSessionsHours(h)
    \/ SweepCommit \/ SweepFail

SpecSweep == Init /\ [][NextSweep]_vars

(* ---- concurrent creates, with and without a model ---- *)
NextCreate ==
    \/ Tick
    \/ \E r \in Reqs :
        \/ CreateSession(r, CreateArgsModels) \/ CreateFlush(r)
        \/ GetSession(r)
        \/ Commit(r) \/ Rollback(r)

SpecCreate == Init /\ [][NextCreate]_vars

(* ---- every operation that writes a session row and keeps it: one    ---- *)
(* ---- client creates and updates sessions while another appends      ---- *)
NextTouch ==
    \/ Tick
    \/ CreateSession("r1", CreateArgs) \/ CreateFlush("r1")
    \/ UpdateSession("r1", UpdateArgs) \/ UpdateFlush("r1")
    \/ AddMessage("r2", {<<"human", "Hi">>}) \/ AddNextOrder("r2") \/ AddFlush("r2")
    \/ \E r \in Reqs : Commit(r) \/ Rollback(r)

SpecTouch == Init /\ [][NextTouch]_vars

(* ---- send_message concurrent with creates and deletes ---- *)
NextSend ==
    \/ Tick
    \/ \E r \in Reqs :
        \/ CreateSession(r, CreateArgs) \/ CreateFlush(r)
        \/ SendMessage(r, SendArgs) \/ SendHistory(r) \/ GenerateResponse(r)
        \/ SendAddMessage(r) \/ SendFlush(r)
        \/ DeleteSession(r)
        \/ Commit(r) \/ Rollback(r)

SpecSend == Init /\ [][NextSend]_vars

(* ---- the schedule of the sweep, next to one client that creates and ---- *)
(* ---- deletes sessions.  The iteration that waits for a row lock gets ---- *)
(* ---- it when the holder ends (the lock queue), whence SF; a commit   ---- *)
(* ---- returns or raises, and every request ends in the commit or the  ---- *)
(* ---- rollback of get_db, whence the two WF.                          ---- *)
NextLive ==
    \/ Tick
    \/ CreateSession("r1", CreateArgs) \/ CreateFlush("r1")
    \/ DeleteSession("r1")
    \/ Commit("r1") \/ Rollback("r1")
    \/ CleanupOldSessions \/ SweepCommit \/ SweepFail

SpecLive ==
    /\ Init /\ [][NextLive]_vars
    /\ SF_vars(CleanupOldSessions)
    /\ WF_vars(SweepCommit \/ SweepFail)
    /\ WF_vars(Commit("r1") \/ Rollback("r1"))

(* ---- two clients working on two sessions: every operation that      ---- *)
(* ---- writes, on either session, in any interleaving                 ---- *)
NextCross ==
    \/ \E r \in Reqs :
        \/ CreateSession(r, CreateArgs) \/ CreateFlush(r)
        \/ UpdateSession(r, UpdateArgs) \/ UpdateFlush(r)
        \/ AddMessage(r, {<<"human", "Hi">>}) \/ AddNextOrder(r) \/ AddFlush(r)
        \/ DeleteSession(r)
        \/ Commit(r) \/ Rollback(r)

SpecCross == Init /\ [][NextCross]_vars

(* ---- stateless prompts concurrent with the session operations ---- *)
NextPrompt ==
    \/ \E r \in Reqs :
        \/ CreateSession(r, CreateArgs) \/ CreateFlush(r)
        \/ AddMessage(r, {<<"human", "Hi">>}) \/ AddNextOrder(r) \/ AddFlush(r)
        \/ DeleteSession(r)
        \/ GeneratePromptResponse(r, PromptArgs) \/ PromptResponseReturn(r)
        \/ Commit(r) \/ Rollback(r)

SpecPrompt == Init /\ [][NextPrompt]_vars

(* ---- turns on sessions of either provider: one client creates,      ---- *)
(* ---- updates and appends, the other sends messages                  ---- *)
NextTurn ==
    \/ CreateSession("r1", CreateArgsModels) \/ CreateFlush("r1")
    \/ UpdateSession("r1", UpdateArgs) \/ UpdateFlush("r1")
    \/ AddMessage("r1", {<<"human", "Hi">>}) \/ AddNextOrder("r1") \/ AddFlush("r1")
    \/ SendMessage("r2", SendArgs) \/ SendHistory("r2") \/ GenerateResponse("r2")
    \/ SendAddMessage("r2") \/ SendFlush("r2")
    \/ \E r \in Reqs : Commit(r) \/ Rollback(r)

SpecTurn == Init /\ [][NextTurn]_vars

(* ---- the life of a message: a client creates, appends, updates and  ---- *)
(* ---- deletes while the sweep expires sessions                       ---- *)
NextOwn ==
    \/ Tick
    \/ CreateSession("r1", CreateArgs) \/ CreateFlush("r1")
    \/ UpdateSession("r1", {<<"m2", None>>}) \/ UpdateFlush("r1")
    \/ AddMessage("r1", {<<"human", "Hi">>}) \/ AddNextOrder("r1") \/ AddFlush("r1")
    \/ DeleteSession("r1")
    \/ Commit("r1") \/ Rollback("r1")
    \/ CleanupOldSessions \/ SweepCommit \/ SweepFail

SpecOwn == Init /\ [][NextOwn]_vars

(* ======================= the claims ======================= *)

(* The step, if any, that request slot r takes.                            *)
Steps(r) == req'[r] # req[r]

(* A request slot in which the operation has returned and the commit of    *)
(* get_db is still to come.                                                *)
Returned(r, kind) == req[r].pc = "commit" /\ req[r].kind = kind

(* C1: no two messages of a session have the same order, and the orders of *)
(* a session's committed messages are exactly 0 .. N-1.                    *)
C1_OrdersUniqueAndGapless ==
    \A sid \in SessionIds :
        LET M == SessionMessages(messages, sid) IN
        /\ \A m1, m2 \in M : m1.id # m2.id => m1.order # m2.order
        /\ {m.order : m \in M} = 0..(Cardinality(M) - 1)

(* C2: appends made one after another: the k-th message committed to a     *)
(* session has order k-1 (ids grow in the order of the inserts), and the   *)
(* order add_message returns is one more than the largest order stored for *)
(* the session, 0 when there is none; rolled-back appends leave no trace.  *)
C2_SequentialOrder ==
    /\ \A sid \in SessionIds :
        LET M == SessionMessages(messages, sid) IN
        \A m \in M : m.order = Cardinality({x \in M : x.id < m.id})
    /\ \A r \in Reqs : (Returned(r, "append") /\ req[r].dirty) =>
        LET M == SessionMessages(messages, req[r].sid) IN
        \A p \in req[r].pending :
            /\ \A m \in M : m.order < p.order
            /\ p.order = 0 \/ \E m \in M : m.order = p.order - 1
            /\ M = {} => p.order = 0

C2_Witness ==
    \E m1, m2 \in messages :
        m1.session_id = m2.session_id /\ m1.order = 0 /\ m2.order = 1

OrphanFree(S, M) == \A m \in M : \E s \in S : s.id = m.session_id

SweepSessions == {s \in sessions : ~SweepHoldsLock(s.id)}

SweepMessages ==
    IF sweep.pc = "commit" THEN CascadeDelete(messages, sweep.del) ELSE messages

(* C3: every message refers to an existing session, in the committed       *)
(* tables and in the tables as any transaction in flight sees them.        *)
C3_NoOrphanMessages ==
    /\ OrphanFree(sessions, messages)
    /\ \A r \in Reqs : OrphanFree(CommittedSessions(r), CommittedMessages(r))
    /\ OrphanFree(SweepSessions, SweepMessages)

(* C3 witness: a delete has removed, in its transaction, a session that    *)
(* holds messages.                                                         *)
C3_Witness ==
    \E r \in Reqs :
        /\ Returned(r, "delete") /\ req[r].dirty
        /\ SessionMessages(messages, req[r].sid) # {}

(* C4: get_messages_for_session returns the messages of the session, each  *)
(* once and no other, ascending by order; for appends made one after       *)
(* another that is the order of the appends.                               *)
C4_ListInAppendOrder ==
    \A r \in Reqs : Returned(r, "list") =>
        LET q == req[r].ret_messages
            M == {m \in messages : m.session_id = req[r].sid} IN
        /\ Len(q) = Cardinality(M)
        /\ {q[i] : i \in 1..Len(q)} = M
        /\ \A i, j \in 1..Len(q) :
              i < j => (q[i].order < q[j].order /\ q[i].id < q[j].id)

C4_Witness ==
    \E r \in Reqs :
        /\ Returned(r, "list")
        /\ Len(req[r].ret_messages) = 2
        /\ LET q == req[r].ret_messages IN
            /\ q[1].order = 0 /\ q[1].role = "human" /\ q[1].content = "Hi"
            /\ q[2].order = 1 /\ q[2].role = "assistant" /\ q[2].content = "Hello!"

(* C5: add_message for a session id that does not exist returns None, and  *)
(* neither the call nor the end of its request changes the tables.         *)
C5_AppendNotFound ==
    [][\A r \in Reqs :
        /\ (req[r].pc = "done" /\ req'[r].kind = "append"
              /\ SessionRow(req'[r].sid) = {})
           => /\ req'[r].pc = "commit" /\ req'[r].outcome = "not_found"
              /\ req'[r].pending = {} /\ ~req'[r].dirty
              /\ UNCHANGED <<sessions, messages>>
        /\ (Returned(r, "append") /\ req[r].outcome = "not_found" /\ Steps(r))
           => UNCHANGED <<sessions, messages>>]_vars

C5_Witness ==
    \E r \in Reqs : Returned(r, "append") /\ req[r].outcome = "not_found"

(* C6: once the deletion of a session has committed, get_session for its   *)
(* id returns None and get_messages_for_session returns the empty list.    *)
C6_AfterDelete ==
    [][\A r \in Reqs :
        /\ (req[r].pc = "done" /\ req'[r].kind = "get" /\ req'[r].sid \in deleted)
           => (req'[r].session = {} /\ req'[r].outcome = "not_found")
        /\ (req[r].pc = "done" /\ req'[r].kind = "list" /\ req'[r].sid \in deleted)
           => (Len(req'[r].ret_messages) = 0 /\ req'[r].outcome = "ok")]_vars

C6_Witness ==
    /\ Returned("r1", "get") /\ req["r1"].gone /\ req["r1"].outcome = "not_found"
    /\ Returned("r2", "list") /\ req["r2"].gone /\ req["r2"].sid = req["r1"].sid

(* C7: delete_session returns True exactly when the session's row exists   *)
(* when the DELETE runs; a call that returned False changes nothing, also  *)
(* when its request ends.                                                  *)
C7_DeleteReturnsExisted ==
    [][\A r \in Reqs :
        /\ (req[r].pc = "done" /\ req'[r].kind = "delete")
           => /\ req'[r].ret_deleted = (SessionRow(req'[r].sid) # {})
              /\ req'[r].outcome # "error"
              /\ UNCHANGED <<sessions, messages>>
        /\ (Returned(r, "delete") /\ ~req[r].ret_deleted /\ Steps(r))
           => UNCHANGED <<sessions, messages>>]_vars

C7_Witness ==
    \E r \in Reqs : Returned(r, "delete") /\ ~req[r].ret_deleted

(* C8 as claimed: the updated_at update_session sets is later than the one *)
(* of the session it loaded, and a patch leaves the fields it omits.       *)
C8_UpdatedAtStrictlyForward ==
    [][\A r \in Reqs :
        (req[r].pc = "done" /\ req'[r].kind = "update" /\ req'[r].session # {})
           => \A old \in SessionRow(req'[r].sid) : \A new \in req'[r].session :
                /\ req'[r].system_prompt = None => new.system_prompt = old.system_prompt
                /\ req'[r].model = None => new.model = old.model
                /\ new.updated_at > old.updated_at]_vars

PatchedFrom(old, new, model, system_prompt) ==
    /\ new.id = old.id /\ new.ai_provider = old.ai_provider
    /\ new.created_at = old.created_at
    /\ new.system_prompt = IF system_prompt = None THEN old.system_prompt
                           ELSE system_prompt
    /\ new.model = IF model = None THEN old.model ELSE model

(* C8 as amended: update_session writes the fields of the patch and        *)
(* updated_at, nothing else: the session it returns and the row its commit  *)
(* leaves differ from the session found only in the patched fields and in  *)
(* updated_at, which is the clock value read in the call and never earlier *)
(* than the one loaded.                                                    *)
C8_PatchOnly ==
    [][\A r \in Reqs :
        /\ (req[r].pc = "done" /\ req'[r].kind = "update" /\ req'[r].session # {})
           => \A old \in SessionRow(req'[r].sid) : \A new \in req'[r].session :
                /\ PatchedFrom(old, new, req'[r].model, req'[r].system_prompt)
                /\ new.updated_at = now /\ new.updated_at >= old.updated_at
        /\ (Returned(r, "update") /\ req[r].dirty /\ req'[r] = IdleReq)
           => /\ \A old \in SessionRow(req[r].sid) :
                    \E new \in sessions' :
                        /\ PatchedFrom(old, new, req[r].model, req[r].system_prompt)
                        /\ new.updated_at = req[r].ts
              /\ \A s \in sessions : s.id # req[r].sid => s \in sessions'
              /\ Cardinality(sessions') = Cardinality(sessions)
              /\ UNCHANGED messages]_vars

(* C8 witness: a patch with only the model is about to commit on a session *)
(* whose system prompt an earlier patch had set.                           *)
C8_Witness ==
    \E r \in Reqs :
        /\ Returned(r, "update") /\ req[r].dirty
        /\ req[r].model = "m2" /\ req[r].system_prompt = None
        /\ \E s \in SessionRow(req[r].sid) : s.system_prompt = "p2"

(* C9: update_session for a session id that does not exist returns None;   *)
(* neither the call nor the end of its request changes the tables.         *)
C9_UpdateNotFound ==
    [][\A r \in Reqs :
        /\ (req[r].pc = "done" /\ req'[r].kind = "update"
              /\ SessionRow(req'[r].sid) = {})
           => /\ req'[r].pc = "commit" /\ req'[r].outcome = "not_found"
              /\ req'[r].session = {} /\ ~req'[r].dirty
              /\ UNCHANGED <<sessions, messages>>
        /\ (Returned(r, "update") /\ req[r].outcome = "not_found" /\ Steps(r))
           => UNCHANGED <<sessions, messages>>]_vars

C9_Witness ==
    \E r \in Reqs : Returned(r, "update") /\ req[r].outcome = "not_found"

(* C10: get_session returns the row with the id when the table holds one   *)
(* and None when it holds none, and changes no table, nor does the end of  *)
(* its request; None comes only from the row being absent: a request that  *)
(* fails ends in an exception.                                             *)
C10_GetIsPureLookup ==
    [][\A r \in Reqs :
        /\ (req[r].pc = "done" /\ req'[r].kind = "get")
           => LET rows == {s \in sessions : s.id = req'[r].sid} IN
              /\ rows # {} => /\ req'[r].session = rows /\ Cardinality(rows) = 1
                              /\ req'[r].outcome = "ok"
              /\ rows = {} => req'[r].session = {} /\ req'[r].outcome = "not_found"
              /\ UNCHANGED <<sessions, messages>>
        /\ (Returned(r, "get") /\ Steps(r))
           => /\ UNCHANGED <<sessions, messages>>
              /\ req'[r].outcome \in {"none", "error"}
        /\ (Steps(r) /\ req'[r].outcome = "not_found")
           => \A s \in sessions : s.id # req'[r].sid]_vars

C10_Witness ==
    \E r \in Reqs :
        /\ Returned(r, "get") /\ req[r].outcome = "ok"
        /\ req[r].session = SessionRow(req[r].sid) /\ req[r].session # {}

(* C11: get_messages_for_session returns the empty list, and raises        *)
(* nothing, for a session that holds no message (one just created, for     *)
(* one) and for a session id that has no row; no operation ends in an      *)
(* exception at its first statement.                                       *)
C11_ListEmpty ==
    [][\A r \in Reqs :
        /\ (req[r].pc = "done" /\ req'[r].kind = "list"
              /\ \/ SessionRow(req'[r].sid) = {}
                 \/ \A m \in messages : m.session_id # req'[r].sid)
           => /\ req'[r].outcome = "ok" /\ req'[r].pc = "commit"
              /\ Len(req'[r].ret_messages) = 0
        /\ (req[r].pc = "done" /\ Steps(r)) => req'[r].pc # "done"]_vars

(* C11 witness: the listing of a session that exists and holds no message  *)
(* has returned (one request at a time: the tables are as it saw them).    *)
C11_Witness ==
    /\ Returned("r1", "list") /\ req["r1"].outcome = "ok"
    /\ SessionRow(req["r1"].sid) # {}
    /\ SessionMessages(messages, req["r1"].sid) = {}
    /\ Len(req["r1"].ret_messages) = 0

(* C12: cleanup_old_sessions(hours) deletes exactly the sessions whose     *)
(* updated_at is earlier than now - hours, with all their messages, leaves *)
(* every other session and message as it is, and returns the number of     *)
(* sessions its commit removes.                                            *)
C12_SweepDeletesExpired ==
    [][/\ (sweep.pc = "sleep" /\ sweep'.pc = "commit")
          => /\ sweep'.cutoff = now - sweep'.hours
             /\ sweep'.del = {s.id : s \in {x \in sessions :
                                               x.updated_at < now - sweep'.hours}}
             /\ sweep'.count = Cardinality(sweep'.del)
             /\ UNCHANGED <<sessions, messages>>
       /\ (sweep.pc = "commit" /\ sweep'.pc = "sleep")
          => \/ UNCHANGED <<sessions, messages>>
             \/ /\ sessions' = {s \in sessions : s.id \notin sweep.del}
                /\ messages' = {m \in messages : m.session_id \notin sweep.del}
                /\ \A s \in sessions \ sessions' : s.updated_at < sweep.cutoff
                /\ Cardinality(sessions) - Cardinality(sessions') = sweep.count]_vars

(* C12 witness: the sweep has deleted, and not yet committed, a session    *)
(* that holds messages, and has left another session alone.                *)
C12_Witness ==
    /\ sweep.pc = "commit" /\ sweep.count = 1
    /\ \E s \in sessions : s.id \in sweep.del
          /\ SessionMessages(messages, s.id) # {}
    /\ \E s \in sessions : s.id \notin sweep.del

(* C13 as claimed: cleanup_old_sessions(hours=0) deletes every session     *)
(* there is, one updated at the instant the sweep runs included, and       *)
(* cleanup_old_sessions(hours=10000) deletes none.                         *)
C13_ZeroHoursDeletesAll ==
    [][(sweep.pc = "sleep" /\ sweep'.pc = "commit")
          => /\ sweep'.hours = 0 => sweep'.del = {s.id : s \in sessions}
             /\ sweep'.hours = 10000 => sweep'.del = {}]_vars

(* C13 as amended: cleanup_old_sessions(hours=0) deletes every session     *)
(* whose updated_at is earlier than the instant the sweep reads, whatever  *)
(* its age, and keeps a session whose updated_at is that same instant;     *)
(* cleanup_old_sessions(hours=10000) deletes none when every session was   *)
(* updated within the last 10000 hours.                                    *)
C13_ZeroHoursDeletesEarlier ==
    [][(sweep.pc = "sleep" /\ sweep'.pc = "commit")
          => /\ sweep'.hours = 0
                => /\ \A s \in sessions :
                        /\ s.updated_at < now => s.id \in sweep'.del
                        /\ s.updated_at = now => s.id \notin sweep'.del
                   /\ sweep'.count = Cardinality({s \in sessions : s.updated_at < now})
             /\ (sweep'.hours = 10000
                   /\ \A s \in sessions : now - s.updated_at <= 10000)
                => sweep'.del = {} /\ sweep'.count = 0]_vars

(* C13 witness: a sweep with hours=0 has deleted a session and kept one    *)
(* that was updated at the instant the sweep read.                         *)
C13_Witness ==
    /\ sweep.pc = "commit" /\ sweep.hours = 0 /\ sweep.del # {}
    /\ \E s \in sessions : s.updated_at = sweep.cutoff /\ s.id \notin sweep.del

(* C14: every session has updated_at >= created_at: the stored ones, the   *)
(* ones the operations return, and the ones any open transaction is about  *)
(* to commit.                                                              *)
C14_UpdatedNotBeforeCreated ==
    /\ \A s \in sessions : s.updated_at >= s.created_at
    /\ \A r \in Reqs :
        /\ \A s \in req[r].session : s.updated_at >= s.created_at
        /\ \A s \in CommittedSessions(r) : s.updated_at >= s.created_at

(* C14 witness: a stored session that an update and an append have         *)
(* touched, with updated_at later than created_at.                         *)
C14_Witness ==
    \E s \in sessions :
        /\ s.model = "m2" /\ SessionMessages(messages, s.id) # {}
        /\ s.updated_at > s.created_at

(* C15: the session create_session returns has created_at = updated_at.    *)
C15_CreatedEqualsUpdated ==
    \A r \in Reqs : (Returned(r, "create") /\ req[r].dirty) =>
        \A s \in req[r].session : s.created_at = s.updated_at

(* C16: the session create_session returns, and its commit stores, has the *)
(* provider and system prompt of the call and the model of the call when   *)
(* one is given; when the model is omitted (or is the empty string) it has *)
(* the default model of the provider.                                      *)
C16_ModelOrDefault ==
    [][\A r \in Reqs :
        /\ (req[r].pc = "create_flush" /\ req'[r].pc = "commit")
           => /\ Cardinality(req'[r].session) = 1
              /\ \A s \in req'[r].session :
                  /\ s.ai_provider = req[r].provider
                  /\ s.system_prompt = req[r].system_prompt
                  /\ req[r].model \notin {None, ""} => s.model = req[r].model
                  /\ (req[r].model \in {None, ""} /\ req[r].provider = "claude")
                     => s.model = default_claude_model
                  /\ (req[r].model \in {None, ""} /\ req[r].provider = "gemini")
                     => s.model = default_gemini_model
        /\ (Returned(r, "create") /\ req[r].dirty /\ req'[r] = IdleReq)
           => sessions' = sessions \cup req[r].session]_vars

(* C16 witness: one session is stored with the model the caller gave, and  *)
(* a creation for gemini without a model has returned the default of       *)
(* gemini.                                                                 *)
C16_Witness ==
    /\ \E s \in sessions : s.ai_provider = "claude" /\ s.model = "m1"
    /\ \E r \in Reqs :
        /\ Returned(r, "create") /\ req[r].dirty
        /\ req[r].provider = "gemini" /\ req[r].model = None
        /\ \E s \in req[r].session : s.model = default_gemini_model

(* C17: no step changes the id, ai_provider or created_at of a stored      *)
(* session, and there is one row per id; the commit of an update changes   *)
(* nothing of its session but model, system_prompt and updated_at, the     *)
(* commit of an append nothing but updated_at, and neither changes another *)
(* session.                                                                *)
C17_ImmutableFields ==
    [][/\ \A s \in sessions : \A t \in sessions' :
            t.id = s.id => (t.ai_provider = s.ai_provider
                              /\ t.created_at = s.created_at)
       /\ \A s, t \in sessions' : s.id = t.id => s = t
       /\ \A r \in Reqs :
            (req[r].kind \in {"update", "append"} /\ Steps(r))
            => \A s \in sessions :
                /\ s.id # req[r].sid => s \in sessions'
                /\ \E t \in sessions' : t.id = s.id
                /\ req[r].kind = "append"
                   => \A t \in sessions' : t.id = s.id
                        => (t.model = s.model
                              /\ t.system_prompt = s.system_prompt)]_vars

(* C17 witness: an append is about to commit on a session whose model and  *)
(* system prompt updates have set.                                         *)
C17_Witness ==
    /\ Returned("r2", "append") /\ req["r2"].dirty
    /\ \E s \in SessionRow(req["r2"].sid) :
          s.model = "m2" /\ s.system_prompt = "p2" /\ s.updated_at # req["r2"].ts

(* C18: the message an append inserts and the updated_at it stamps become  *)
(* visible in one step, the commit of the request: no step of the request  *)
(* before it, and no rollback, changes the tables, and no step shows a     *)
(* new message without the stamp or a new updated_at without a message.    *)
C18_AppendAtomic ==
    [][/\ \A r \in Reqs : (req[r].kind = "append" /\ Steps(r)) =>
            IF req[r].pc = "commit" /\ req[r].dirty /\ req'[r] = IdleReq
            THEN /\ req[r].pending # {} /\ req[r].pending \cap messages = {}
                 /\ messages' = messages \cup req[r].pending
                 /\ \A p \in req[r].pending : p.session_id = req[r].sid
                 /\ \E t \in sessions' :
                        t.id = req[r].sid /\ t.updated_at = req[r].ts
            ELSE UNCHANGED <<sessions, messages>>
       /\ \A s \in sessions : \A t \in sessions' :
            (t.id = s.id /\ t.updated_at # s.updated_at)
            => \E m \in messages' \ messages : m.session_id = s.id
       /\ \A m \in messages' \ messages :
            \E r \in Reqs : \E t \in sessions' :
                /\ m \in req[r].pending
                /\ t.id = m.session_id /\ t.updated_at = req[r].ts]_vars

(* C18 witness: an append has returned with its message inserted and a     *)
(* later updated_at stamped, neither committed yet.                        *)
C18_Witness ==
    \E r \in Reqs :
        /\ Returned(r, "append") /\ req[r].dirty /\ req[r].pending # {}
        /\ req[r].pending \cap messages = {}
        /\ \E s \in SessionRow(req[r].sid) : s.updated_at < req[r].ts

(* C19: while send_message waits for the provider adapter, its request     *)
(* holds no transaction open on the store.                                 *)
C19_NoTransactionAcrossProviderCall ==
    \A r \in Reqs : req[r].pc = "send_call" => ~InTransaction(r)

(* C20: once a store operation that wrote has returned, to the client or   *)
(* to a handler that goes on to its next operation, the committed tables   *)
(* hold what it wrote.                                                     *)
C20_WritesCommittedOnReturn ==
    \A r \in Reqs :
        (req[r].dirty /\ req[r].pc \in {"commit", "send_add"})
        => /\ sessions = CommittedSessions(r)
           /\ messages = CommittedMessages(r)

(* C21: the sweep keeps running: an iteration fires again and again, and   *)
(* after an iteration that failed (the failure is caught and logged) a     *)
(* next iteration eventually fires.                                        *)
C21_SweepKeepsRunning ==
    /\ []<>(sweep.pc = "commit")
    /\ sweep.failed ~> (sweep.pc = "commit")

(* C21 witness: an iteration has failed and the task sleeps, with a        *)
(* session in the store.                                                   *)
C21_Witness ==
    sweep.failed /\ sweep.pc = "sleep" /\ sessions # {}

OtherSessions(S, sid) == {s \in S : s.id # sid}
OtherMessages(M, sid) == {m \in M : m.session_id # sid}

(* C24: every step of an update_session, add_message or delete_session on  *)
(* session A, its commit included, leaves every session other than A, with *)
(* all its fields, and every message of the sessions other than A, with    *)
(* its order, exactly as they were, whatever the other client is doing.    *)
C24_OtherSessionsUntouched ==
    [][\A r \in Reqs :
        LET A == IF req[r].pc = "done" THEN req'[r].sid ELSE req[r].sid
            kind == IF req[r].pc = "done" THEN req'[r].kind ELSE req[r].kind
        IN  (Steps(r) /\ kind \in {"update", "append", "delete"})
            => /\ OtherSessions(sessions', A) = OtherSessions(sessions, A)
               /\ OtherMessages(messages', A) = OtherMessages(messages, A)]_vars

(* C24 witness: a delete_session on session A has returned True and its    *)
(* commit is to come, while another session B is stored with a message.    *)
C24_Witness ==
    \E r \in Reqs :
        /\ Returned(r, "delete") /\ req[r].dirty
        /\ \E m \in messages : m.session_id # req[r].sid
        /\ SessionRow(req[r].sid) # {}

(* C25: a request in a store operation ends in one of two ways only: the   *)
(* operation returned and get_db committed, or a failure was raised to the *)
(* caller as an error (never a NotFound result, never a success, no second *)
(* attempt) and then the step leaves the session and message tables as     *)
(* they were and nothing of the operation stays pending.                   *)
C25_FailurePropagates ==
    [][\A r \in Reqs :
        (Steps(r) /\ req'[r].pc = "done" /\ req[r].pc # "raise")
        => \/ req[r].pc = "commit" /\ req'[r] = IdleReq
           \/ /\ req'[r].outcome = "error"
              /\ req'[r].pending = {} /\ ~req'[r].dirty
              /\ UNCHANGED <<sessions, messages, deleted>>]_vars

(* C25 witness: an add_message flushed its INSERT and then failed: the     *)
(* caller got the error and no message is stored or pending anywhere.      *)
C25_Witness ==
    /\ \E r \in Reqs : req[r] = Raised
    /\ nextMid > 1 /\ messages = {} /\ deleted = {} /\ sessions # {}
    /\ \A r \in Reqs : req[r].pending = {}

C27_PromptIsStateless ==
    [][\A r \in Reqs :
        (Steps(r) /\ (req[r].kind = "prompt" \/ req'[r].kind = "prompt"))
        => /\ UNCHANGED <<sessions, messages, nextSid, nextMid, deleted>>
           /\ ~InTransaction(r)' /\ req'[r].pc \in {"prompt_call", "done"}
           /\ req'[r].pending = {} /\ ~req'[r].dirty
           /\ req'[r].session = {} /\ req'[r].ret_messages = <<>>
           /\ \A q \in Reqs \ {r} : req'[q] = req[q]]_vars

(* C27 witness: a prompt is waiting for the provider while a session with  *)
(* a message is stored and the other request has an append flushed.        *)
C27_Witness ==
    \E r \in Reqs :
        /\ req[r].pc = "prompt_call"
        /\ messages # {}
        /\ \E q \in Reqs : req[q].kind = "append" /\ req[q].dirty

(* Whether the message sent to the provider speaks for the same side as    *)
(* the stored one: 'user' (Claude) or "Human: " (Gemini) for a human       *)
(* message, 'assistant' or "Assistant: " for an assistant's.               *)
SameSide(stored, sent) ==
    /\ sent.content = stored.content
    /\ IF stored.role = "human" THEN sent.role \in {"user", "Human: "}
       ELSE sent.role \in {"assistant", "Assistant: "}

C29_SendToMissingSession ==
    [][\A r \in Reqs :
        /\ (Steps(r) /\ req[r].pc = "done" /\ req'[r].kind = "send"
              /\ SessionRow(req'[r].sid) = {})
           => /\ req'[r].pc = "raise" /\ req'[r].outcome = "not_found"
              /\ req'[r].request = EmptyRequest /\ req'[r].pending = {}
        /\ (Steps(r) /\ req[r].pc = "raise")
           => /\ req'[r].pc = "done" /\ req'[r].pending = {}
              /\ UNCHANGED <<sessions, messages, nextMid>>]_vars

(* C29 witness: a send_message on the id of a session that was deleted has *)
(* raised 404 while another session is stored.                             *)
C29_Witness ==
    \E r \in Reqs :
        /\ req[r].pc = "raise" /\ req[r].kind = "send"
        /\ req[r].sid \in deleted /\ sessions # {}

(* C30: a turn loads the session row committed for its id at that moment,  *)
(* and the request it hands to the adapter carries that row's provider,    *)
(* system prompt and model (the adapter calls that model, its own default  *)
(* standing in for an empty one), so a turn that starts after an           *)
(* update_session committed uses the updated values, and never those of    *)
(* another session; the provider of a stored session never changes.        *)
C30_TurnUsesStoredSession ==
    [][/\ \A r \in Reqs :
            /\ (Steps(r) /\ req[r].pc = "done" /\ req'[r].pc = "send_history")
               => /\ req'[r].session = SessionRow(req'[r].sid)
                  /\ req'[r].session # {}
            /\ (Steps(r) /\ req[r].pc = "send_history" /\ req'[r].pc = "send_call")
               => \A s \in req[r].session :
                     /\ s.id = req[r].sid
                     /\ req'[r].request.ai_provider = s.ai_provider
                     /\ req'[r].request.system_prompt = s.system_prompt
                     /\ req'[r].request.model = s.model
                     /\ s.model # "" => ProviderModel(req'[r].request) = s.model
       /\ \A s \in sessions : \A t \in sessions' :
            s.id = t.id => s.ai_provider = t.ai_provider]_vars

(* C30 witness: a turn is at the provider with the model an update_session *)
(* stored, on a gemini session, while another session with another model   *)
(* is stored.                                                              *)
C30_Witness ==
    \E r \in Reqs :
        /\ req[r].pc = "send_call"
        /\ req[r].request.model = "m2" /\ req[r].request.ai_provider = "gemini"
        /\ \E s \in sessions : s.id # req[r].sid /\ s.model # "m2"

(* C31: a stored message stays in the store exactly as it was appended     *)
(* (id, session_id, role, content, order, created_at) through every step   *)
(* of every operation, and it leaves the store only in a step that removes *)
(* the session that owns it: the commit of a delete_session or of a sweep  *)
(* that expired it; a message that comes in has a new id.                  *)
C31_MessageHasNoOwnLifecycle ==
    [][/\ \A m \in messages :
            \/ m \in messages'
            \/ /\ SessionRow(m.session_id) # {}
               /\ \A s \in sessions' : s.id # m.session_id
               /\ m.session_id \in deleted' \ deleted
               /\ \A n \in messages' : n.id # m.id
       /\ \A n \in messages' \ messages : \A m \in messages : n.id # m.id]_vars

(* C31 witness: a stored message of a session that has since been updated  *)
(* and appended to, while the sweep is about to commit the expiry of that  *)
(* session and another session was deleted before.                         *)
C31_Witness ==
    /\ sweep.pc = "commit"
    /\ \E m \in messages :
        /\ m.session_id \in sweep.del
        /\ \E s \in sessions : s.id = m.session_id /\ s.model = "m2"
    /\ deleted # {}

(* C32: the committed updated_at of a session never decreases: every step  *)
(* that leaves a session in the table, the commit of an update_session or  *)
(* of an add_message among them, leaves its updated_at greater than or     *)
(* equal to the value committed before.                                    *)
C32_UpdatedAtNeverDecreases ==
    [][\A s \in sessions : \A t \in sessions' :
          s.id = t.id => t.updated_at >= s.updated_at]_vars

(* C33: a send_message turn is all-or-nothing in the committed message     *)
(* table, which is what other requests read: a step of the turn either     *)
(* leaves the table as it was, as every step before the commit and every   *)
(* failure (of the provider call, of an append, of the commit) does, or is *)
(* the commit that adds the human message and the assistant reply          *)
(* together.                                                               *)
C33_TurnIsAllOrNothing ==
    [][\A r \in Reqs :
        (Steps(r) /\ req[r].kind = "send")
        => \/ messages' = messages
           \/ /\ req[r].pc = "commit" /\ req[r].outcome = "ok"
              /\ messages \subseteq messages'
              /\ messages' \ messages = req[r].pending
              /\ Cardinality(req[r].pending) = 2
              /\ {m.role : m \in req[r].pending} = {"human", "assistant"}
              /\ \A m \in req[r].pending : m.session_id = req[r].sid]_vars

(* C33 witness: a turn has stored its human message and its reply and has  *)
(* returned; until its commit the table shows neither, while the other     *)
(* request waits to delete the session.                                    *)
C33_Witness ==
    \E r \in Reqs :
        /\ Returned(r, "send") /\ Cardinality(req[r].pending) = 2
        /\ messages = {}
        /\ \E q \in Reqs : req[q].pc = "done" /\ req[q].outcome = "error"

(* C34: when a send_message turn has stored its two messages, the reply's  *)
(* order is the human message's order + 1 and no other message of the      *)
(* session has an order from the human message's to the reply's.           *)
C34_ReplyDirectlyAfterHuman ==
    \A r \in Reqs :
        (Returned(r, "send") /\ Cardinality(req[r].pending) = 2)
        => \A h, a \in req[r].pending :
              (h.role = "human" /\ a.role = "assistant")
              => /\ a.order = h.order + 1
                 /\ \A m \in SessionMessages(messages, req[r].sid) :
                        m.order < h.order \/ m.order > a.order

(* C35: a sweep iteration removes nothing before its commit, and one that  *)
(* fails before its commit is rolled back and closed: the session and      *)
(* message tables are as they were, the rows its DELETE had hit are        *)
(* released, and the task is back at its sleep.                            *)
C35_SweepIsAllOrNothing ==
    [][/\ (sweep.pc = "sleep" /\ sweep'.pc = "commit")
          => UNCHANGED <<sessions, messages, deleted>>
       /\ (~sweep.failed /\ sweep'.failed)
          => /\ sweep.pc = "commit"
             /\ UNCHANGED <<sessions, messages, deleted>>
             /\ sweep'.pc = "sleep" /\ sweep'.del = {}
             /\ \A sid \in SessionIds : ~SweepHoldsLock(sid)']_vars

(* C35 witness: an iteration whose DELETE had hit an expired session with  *)
(* a message has failed; the session and the message are still stored.     *)
C35_Witness ==
    /\ sweep.failed /\ sweep.pc = "sleep"
    /\ \E m \in messages :
          m.session_id \in Expired(now - session_expiry_hours)
    /\ deleted = {}

(* C36: concurrent update_session requests on one session that patch       *)
(* different fields lose no update: the commit of a patch stores the field *)
(* it sets, and no step takes a committed patch value ("m2", "p2") back    *)
(* out of a stored session, so after a model patch and a system prompt     *)
(* patch have both committed the session holds both new values.            *)
C36_NoLostUpdate ==
    [][/\ \A s \in sessions : \A t \in sessions' :
            s.id = t.id => /\ s.model = "m2" => t.model = "m2"
                           /\ s.system_prompt = "p2" => t.system_prompt = "p2"
       /\ \A r \in Reqs :
            (Returned(r, "update") /\ req[r].dirty /\ req'[r] = IdleReq)
            => \A t \in sessions' :
                  t.id = req[r].sid
                  => /\ req[r].model # None => t.model = req[r].model
                     /\ req[r].system_prompt # None
                        => t.system_prompt = req[r].system_prompt]_vars

(* C36 witness: a system prompt patch that loaded the session before a     *)
(* concurrent model patch committed is about to commit: its copy has the   *)
(* old model, the stored row the new one.                                  *)
C36_Witness ==
    \E r \in Reqs :
        /\ Returned(r, "update") /\ req[r].dirty
        /\ req[r].model = None /\ req[r].system_prompt = "p2"
        /\ \E c \in req[r].session : c.model # "m2"
        /\ \E s \in SessionRow(req[r].sid) : s.model = "m2" /\ s.system_prompt = "p1"
====
